---- MODULE Spec2Model ----
(***************************************************************************)
(* A model of the phenomenal-ai conversation core: the conversation        *)
(* history (ConversationHistory), the round-robin scheduler, the turn      *)
(* engine of Conversation (turn / query / loop / inject), the window       *)
(* builder of util.ts (buildWindow) and its history mask (mask).           *)
(*                                                                         *)
(* Texts are sequences of one-character strings, so that the word-count    *)
(* heuristic is computed by splitting on spaces as the code does.  A token *)
(* list or embedding vector is represented by its length (the code only    *)
(* reads .length), with Undef for an absent one.                           *)
(***************************************************************************)
EXTENDS Integers, Sequences, FiniteSets, TLC

\* ------------------------------------------------------------------ bounds
\* Largest number of participants of a conversation.
MaxActors == 2
\* Messages pushed to the history in one behaviour.
MaxMsgs == 3
\* getNextSpeaker calls in one behaviour.
MaxCalls == 3
\* Largest magnitude of a window budget passed to the constructor.
MaxWindow == 1

\* Entries of the collection handed to the window builder.
MaxEntries == 2
\* Largest priority of an entry.
MaxPriority == 1
\* Largest budget handed to the window builder.
MaxBudget == 2

\* Messages handed to the history mask.
MaxMaskMsgs == 3
\* Largest window handed to the history mask.
MaxMaskWindow == 8

\* Calls of history.up and history.down in one behaviour.
MaxVotes == 2

\* An absent (undefined) token list / embedding vector / priority.
Undef == -1

\* --------------------------------------------------------------- constants
ActorNames == <<"Alice", "Bob", "Carol">>
System == "System"

TxtOk == <<"o", "k">>
TxtNoWay == <<"n", "o", " ", "w", "a", "y">>
TxtWelcome == <<"h", "i", " ", "a", "l", "l">>
TxtWhy == <<"w", "h", "y">>

\* What the generateText collaborator may resolve to: { text, tokens?, embeddings? }.
GenResults ==
  { [text |-> TxtOk, tokens |-> Undef, embeddings |-> Undef],
    [text |-> TxtNoWay, tokens |-> Undef, embeddings |-> 2] }

\* The window argument of the constructor: undefined, a number, or { max }.
NoWindow == [kind |-> "undefined", max |-> 0]
WindowArgs ==
  {NoWindow} \cup
  { [kind |-> k, max |-> m] : k \in {"number", "object"}, m \in (0 - MaxWindow)..MaxWindow }

\* The store argument of query: a boolean, or { query?, response? }
\* (an omitted flag of the object behaves as false in both tests of the code).
StoreArgs ==
  { [kind |-> "boolean", value |-> v, query |-> FALSE, response |-> FALSE] : v \in BOOLEAN } \cup
  { [kind |-> "object", value |-> FALSE, query |-> q, response |-> r] : q \in BOOLEAN, r \in BOOLEAN }

\* ------------------------------------------------------------------- state
VARIABLES
  status,      \* "unbuilt" | "ok" | "failed": outcome of new Conversation(...)
  ctorWindow,  \* the window argument the constructor was called with
  nActors,     \* conversation.actors.length
  window,      \* conversation.window
  hasGen,      \* conversation.generateText is defined
  history,     \* conversation.history.messages
  nextId,      \* identity of the next message object to be created
  lastIndex,   \* RoundRobinScheduler.lastIndex
  schedLog,    \* the actors returned by getNextSpeaker, in call order
  pc,          \* "idle" | "turn" | "query": the call awaiting generateText
  cur,         \* the locals of the call awaiting generateText
  loopPc,      \* "none" | "start" | "turn" | "yielded": position of the loop generator
  loopCur,     \* the arguments of the loop generator
  aborted,     \* signal.aborted of the loop's AbortSignal
  lastOp,      \* the last completed call and its outcome
  before,      \* history.messages when the last call was made
  winPc,       \* "input" | "done": buildWindow has not run / has returned
  winInput,    \* buildWindow's inputValues: the buckets, in key order
  winBudget,   \* buildWindow's maxTokens
  winFlat,     \* sortedValues before the sort
  winSorted,   \* sortedValues after the sort
  winKept,     \* orderedValues after the per-bucket sort by index
  winOutput,   \* the returned outputValues
  maskPc,      \* "input" | "done": mask has not run / has returned
  maskInput,   \* mask's messages
  maskWindow,  \* mask's window
  maskOutput,  \* the returned unmasked messages
  feedback,    \* the feedback arrays that are not [0, 0], by identity
  result,      \* what the last getMessagesFor or getStats returned
  inflight,    \* the turns invoked without awaiting, awaiting generateText
  commits,     \* the invocation numbers of those turns, in order of commit
  context,     \* actor.context of every actor: per name the entries or Undef
  setCalls,    \* the context.set calls suspended at an await
  setCount     \* the number of context.set calls made

convVars == <<status, ctorWindow, nActors, window, hasGen, history, nextId, lastIndex,
              schedLog, pc, cur, loopPc, loopCur, aborted, lastOp, before>>
winVars == <<winPc, winInput, winBudget, winFlat, winSorted, winKept, winOutput>>
maskVars == <<maskPc, maskInput, maskWindow, maskOutput>>
fbVars == <<feedback>>
obsVars == <<result>>
asyncVars == <<inflight, commits>>
ctxVars == <<context, setCalls, setCount>>
extVars == <<fbVars, obsVars, asyncVars, ctxVars>>
vars == <<convVars, winVars, maskVars, extVars>>

\* ----------------------------------------------------------------- helpers
NoCur == [speaker |-> "", answerer |-> "", ephemeral |-> FALSE,
          store |-> [kind |-> "boolean", value |-> FALSE, query |-> FALSE, response |-> FALSE],
          prompt |-> <<>>]
\* abortedAt: where the generator was when its signal was aborted ("" while it
\* is not aborted, "before" when the signal was already aborted at the call).
NoLoop == [gen |-> FALSE, ownScheduler |-> TRUE, abortedAt |-> ""]
NoStore == [kind |-> "boolean", value |-> FALSE, query |-> FALSE, response |-> FALSE]
\* The record of a call: its name, its outcome, and for a call that returned
\* the identity of the message it returned or committed (ret), the text that
\* generateText resolved to, the speaker and the store argument; for a call of
\* turn or query that has not returned, whether a generateText argument was
\* passed (arg).
Op(name, outcome) ==
  [name |-> name, outcome |-> outcome, ret |-> 0, text |-> <<>>, speaker |-> "",
   store |-> NoStore, arg |-> FALSE]
OpArg(name, outcome, g) == [Op(name, outcome) EXCEPT !.arg = g]
OpRet(name, outcome, ret) == [Op(name, outcome) EXCEPT !.ret = ret]
OpDone(name, outcome, ret, text, speaker, store) ==
  [name |-> name, outcome |-> outcome, ret |-> ret, text |-> text, speaker |-> speaker,
   store |-> store, arg |-> FALSE]

\* Array.prototype.splice(index, 1) with a 0-based index: removes the element
\* at that position, and removes nothing when the index is past the end.
Splice(s, index) ==
  IF index < Len(s)
    THEN SubSeq(s, 1, index) \o SubSeq(s, index + 2, Len(s))
    ELSE s

\* The 0-based indexes of the ephemeral messages, ascending (the reduce).
RECURSIVE EphemeralIndexes(_, _)
EphemeralIndexes(s, i) ==
  IF i >= Len(s) THEN <<>>
  ELSE (IF s[i + 1].ephemeral THEN <<i>> ELSE <<>>) \o EphemeralIndexes(s, i + 1)

\* The for-of loop over the collected indexes, splicing the live array.
RECURSIVE SpliceAll(_, _)
SpliceAll(s, indexes) ==
  IF indexes = <<>> THEN s
  ELSE SpliceAll(Splice(s, Head(indexes)), Tail(indexes))

\* ConversationHistory.cleanEphemeral
CleanEphemeral(s) == SpliceAll(s, EphemeralIndexes(s, 0))

\* Conversation.buildMessage: tokens and embeddings are dropped for an
\* ephemeral message; true/false (no derivation function configured) give
\* undefined; ephemeral is normalised to a boolean; feedback defaults to a new
\* array [0, 0], which has the identity id of its own.
BuildMessage(id, speaker, text, tokens, embeddings, ephemeral) ==
  [id |-> id, actor |-> speaker, text |-> text,
   tokens |-> IF ephemeral THEN Undef ELSE tokens,
   embeddings |-> IF ephemeral THEN Undef ELSE embeddings,
   ephemeral |-> ephemeral, feedback |-> id]

\* A push that puts the copy in front of the messages (unshift).
PushFront(s, message, id) ==
  <<[message EXCEPT !.id = id, !.feedback = IF @ = Undef THEN id ELSE @]>> \o s

\* ConversationHistory.push: appends a copy ({ feedback: [0, 0], ...message }),
\* a new object with its own identity; the copy is shallow, so it holds the
\* feedback array of the message, and a new array when the message has none.
Push(s, message, id) ==
  Append(s, [message EXCEPT !.id = id,
                            !.feedback = IF @ = Undef THEN id ELSE @])

\* ---------------------------------------------------------------- initial
\* The conversation before new Conversation(...) has run.
ConvInit ==
  /\ status = "unbuilt"
  /\ ctorWindow = NoWindow
  /\ nActors = 0
  /\ window = NoWindow
  /\ hasGen = FALSE
  /\ history = <<>>
  /\ nextId = 1
  /\ lastIndex = 0
  /\ schedLog = <<>>
  /\ pc = "idle"
  /\ cur = NoCur
  /\ loopPc = "none"
  /\ loopCur = NoLoop
  /\ aborted = FALSE
  /\ lastOp = Op("none", "ok")
  /\ before = <<>>

\* No call of buildWindow is being observed.
WinIdle ==
  /\ winPc = "input"
  /\ winInput = <<>>
  /\ winBudget = 0
  /\ winFlat = <<>>
  /\ winSorted = <<>>
  /\ winKept = {}
  /\ winOutput = {}

\* No call of mask is being observed.
MaskIdle ==
  /\ maskPc = "input"
  /\ maskInput = <<>>
  /\ maskWindow = 0
  /\ maskOutput = <<>>

\* Every feedback array is [0, 0]; nothing has been returned by the history,
\* no turn runs unawaited and no context entry has been set.
FbIdle == feedback = <<>>
ObsIdle == result = <<>>
AsyncIdle == inflight = {} /\ commits = <<>>
CtxIdle == context = <<>> /\ setCalls = {} /\ setCount = 0
ExtIdle == FbIdle /\ ObsIdle /\ AsyncIdle /\ CtxIdle

Init == ConvInit /\ WinIdle /\ MaskIdle /\ ExtIdle

\* new Conversation(name, { actors, generateText, window })
Construct(n, g, w) ==
  /\ status = "unbuilt"
  /\ ctorWindow' = w
  /\ nActors' = n
  /\ hasGen' = g
  /\ before' = history
  /\ IF w.kind # "undefined" /\ ~(w.max < 0)
       THEN /\ status' = "failed"
            /\ window' = window
            /\ lastOp' = Op("construct", "error")
       ELSE /\ status' = "ok"
            /\ window' = w
            /\ lastOp' = Op("construct", "ok")
  /\ UNCHANGED <<history, nextId, lastIndex, schedLog, pc, cur, loopPc, loopCur,
                 aborted>>
  /\ UNCHANGED <<winVars, maskVars, extVars>>

\* The conversation exists and no call on it is awaiting generateText.
Ready == status = "ok" /\ pc = "idle" /\ loopPc # "turn"
\* A direct call is made while no loop generator is live: the consumer of the
\* loop makes no other call on the conversation between two iterations.
Free == Ready /\ loopPc = "none"

\* conversation.inject(text, { speaker, ephemeral })
Inject(speaker, text, ephemeral) ==
  /\ Free
  /\ nextId + 1 <= 2 * MaxMsgs
  /\ history' = Push(history,
                     BuildMessage(nextId, speaker, text, Undef, Undef, ephemeral),
                     nextId + 1)
  /\ nextId' = nextId + 2
  /\ lastOp' = OpRet("inject", "ok", nextId)
  /\ before' = history
  /\ UNCHANGED <<status, ctorWindow, nActors, window, hasGen, lastIndex, schedLog,
                 pc, cur, loopPc, loopCur, aborted>>
  /\ UNCHANGED <<winVars, maskVars, extVars>>

\* conversation.history.cleanEphemeral()
CleanEphemeralCall ==
  /\ Free
  /\ history' = CleanEphemeral(history)
  /\ lastOp' = Op("cleanEphemeral", "ok")
  /\ before' = history
  /\ UNCHANGED <<status, ctorWindow, nActors, window, hasGen, nextId, lastIndex,
                 schedLog, pc, cur, loopPc, loopCur, aborted>>
  /\ UNCHANGED <<winVars, maskVars, extVars>>

\* A scheduler that advances its cursor before reading it (++lastIndex).
NextSpeakerPreIncrement(index, n) == ((index + 1) % n) + 1
\* RoundRobinScheduler.getNextSpeaker: actors[lastIndex++ % actors.length],
\* as the 1-based position of the returned actor in conversation.actors.
NextSpeaker(index, n) == (index % n) + 1

\* Actor.render(conversation): with a window configured (a truthy
\* conversation.window) it calls buildWindow on the actor's plain-object
\* sections, whose typeMap.forEach is not a function, so it throws; with no
\* window it renders every entry and conversation.history.messages as they are.
Truthy(w) == w.kind = "object" \/ (w.kind = "number" /\ w.max # 0)
RenderThrows == Truthy(window)
RenderMessages(s) == s

\* A call that takes a generateText for granted.
GenerateTextAssumed(g) == TRUE
\* The default parameter generateText = this.generateText: a generateText is
\* at hand when the argument g is passed or the conversation has its own.
GenerateTextOf(g) == g \/ hasGen

\* A loop that accepts any scheduler.
BoundToAny(c) == TRUE
\* scheduler.conversation === this for the scheduler of the loop arguments c.
BoundToThis(c) == c.ownScheduler

\* conversation.scheduler.getNextSpeaker()
GetNextSpeakerCall ==
  /\ Free
  /\ lastIndex < MaxCalls
  /\ lastIndex' = lastIndex + 1
  /\ schedLog' = Append(schedLog, NextSpeaker(lastIndex, nActors))
  /\ lastOp' = OpRet("getNextSpeaker", "ok", NextSpeaker(lastIndex, nActors))
  /\ before' = history
  /\ UNCHANGED <<status, ctorWindow, nActors, window, hasGen, history, nextId,
                 pc, cur, loopPc, loopCur, aborted>>
  /\ UNCHANGED <<winVars, maskVars, extVars>>

\* A turn that asks the scheduler whether or not a speaker is passed.
ConsultsAlways(sp) == TRUE
\* speaker = this.scheduler.getNextSpeaker(): the default is evaluated only
\* when no speaker is passed (sp = 0).
Consults(sp) == sp = 0

\* conversation.turn({ speaker, generateText }) up to the await of generateText.
\* sp = 0 stands for an omitted speaker (the default parameter consults the
\* scheduler before the body runs); g tells whether generateText is passed.
Turn(sp, g) ==
  /\ Free
  /\ Consults(sp) => lastIndex < MaxCalls
  /\ lastIndex' = IF Consults(sp) THEN lastIndex + 1 ELSE lastIndex
  /\ schedLog' = IF Consults(sp) THEN Append(schedLog, NextSpeaker(lastIndex, nActors))
                           ELSE schedLog
  /\ before' = history
  /\ LET speaker == IF Consults(sp) THEN NextSpeaker(lastIndex, nActors) ELSE sp
     IN IF ~GenerateTextOf(g)
          THEN /\ lastOp' = OpArg("turn", "no_generateText", g)
               /\ UNCHANGED <<pc, cur>>
          ELSE IF RenderThrows
            THEN /\ lastOp' = OpArg("turn", "render_error", g)
                 /\ UNCHANGED <<pc, cur>>
            ELSE /\ pc' = "turn"
                 /\ cur' = [NoCur EXCEPT !.speaker = ActorNames[speaker],
                                         !.prompt = RenderMessages(history)]
                 /\ lastOp' = OpArg("turn", "pending", g)
  /\ UNCHANGED <<status, ctorWindow, nActors, window, hasGen, history, nextId,
                 loopPc, loopCur, aborted>>
  /\ UNCHANGED <<winVars, maskVars, extVars>>

\* The rest of turn once generateText has resolved to r: buildMessage,
\* history.push, history.cleanEphemeral, return.
TurnCommit(s, id, speaker, r) ==
  CleanEphemeral(Push(s, BuildMessage(id, speaker, r.text, r.tokens, r.embeddings, FALSE),
                      id + 1))

TurnReturn(r) ==
  /\ pc = "turn"
  /\ nextId + 1 <= 2 * MaxMsgs
  /\ history' = TurnCommit(history, nextId, cur.speaker, r)
  /\ nextId' = nextId + 2
  /\ pc' = "idle"
  /\ cur' = NoCur
  /\ lastOp' = OpDone("turn", "ok", nextId + 1, r.text, cur.speaker, NoStore)
  /\ UNCHANGED <<status, ctorWindow, nActors, window, hasGen, lastIndex, schedLog,
                 loopPc, loopCur, aborted, before>>
  /\ UNCHANGED <<winVars, maskVars, extVars>>

\* A turn that sweeps the ephemeral messages when generateText has failed.
TurnFailedSwept(s) == CleanEphemeral(s)
\* The history after the await of generateText has rejected in a turn: the
\* rest of turn (buildMessage, push, cleanEphemeral) does not run.
TurnFailed(s) == s

\* generateText rejects during a turn: the error propagates out of turn.
TurnThrow ==
  /\ pc = "turn"
  /\ pc' = "idle"
  /\ cur' = NoCur
  /\ history' = TurnFailed(history)
  /\ lastOp' = Op("turn", "generateText_error")
  /\ UNCHANGED <<status, ctorWindow, nActors, window, hasGen, nextId,
                 lastIndex, schedLog, loopPc, loopCur, aborted, before>>
  /\ UNCHANGED <<winVars, maskVars, extVars>>

\* conversation.query({ speaker, answerer, query, generateText, store }) up to
\* the await of generateText: the query message is pushed before the prompt of
\* the answerer is rendered.
\* A query that renders the prompt before it pushes the query message.
QueryPromptBeforePush(s, pushed) == RenderMessages(s)
\* const prompt = answerer.render(this), after this.history.push(message): the
\* prompt of the history s with the query message pushed.
QueryPrompt(s, pushed) == RenderMessages(pushed)
QueryEphemeral(store) == IF store.kind = "boolean" THEN ~store.value ELSE ~store.query
\* A query that stores the answer whenever it stores the query message.
QueryStoresResponseWithQuery(store) == ~QueryEphemeral(store)
QueryStoresResponse(store) ==
  (store.kind = "boolean" /\ store.value) \/ (store.kind = "object" /\ store.response)

Query(speaker, answerer, text, store, g) ==
  /\ Free
  /\ nextId + 1 <= 2 * MaxMsgs
  /\ before' = history
  /\ IF ~GenerateTextOf(g)
       THEN /\ lastOp' = OpArg("query", "no_generateText", g)
            /\ UNCHANGED <<history, nextId, pc, cur>>
       ELSE LET pushed == Push(history,
                               BuildMessage(nextId, speaker, text, Undef, Undef,
                                            QueryEphemeral(store)),
                               nextId + 1)
            IN /\ history' = pushed
               /\ nextId' = nextId + 2
               /\ IF RenderThrows
                    THEN /\ lastOp' = OpArg("query", "render_error", g)
                         /\ UNCHANGED <<pc, cur>>
                    ELSE /\ pc' = "query"
                         /\ cur' = [speaker |-> speaker, answerer |-> ActorNames[answerer],
                                    ephemeral |-> QueryEphemeral(store), store |-> store,
                                    prompt |-> QueryPrompt(history, pushed)]
                         /\ lastOp' = OpArg("query", "pending", g)
  /\ UNCHANGED <<status, ctorWindow, nActors, window, hasGen, lastIndex, schedLog,
                 loopPc, loopCur, aborted>>
  /\ UNCHANGED <<winVars, maskVars, extVars>>

\* The rest of query once generateText has resolved to r: the ephemeral pass
\* when the query message is ephemeral, then the push of the answer when the
\* response is to be stored.
QueryCommit(s, id, c, r) ==
  LET cleaned == IF c.ephemeral THEN CleanEphemeral(s) ELSE s
  IN IF QueryStoresResponse(c.store)
       THEN Push(cleaned, BuildMessage(id, c.answerer, r.text, r.tokens, r.embeddings, FALSE),
                 id + 1)
       ELSE cleaned

QueryReturn(r) ==
  /\ pc = "query"
  /\ QueryStoresResponse(cur.store) => nextId + 1 <= 2 * MaxMsgs
  /\ history' = QueryCommit(history, nextId, cur, r)
  /\ nextId' = IF QueryStoresResponse(cur.store) THEN nextId + 2 ELSE nextId
  /\ pc' = "idle"
  /\ cur' = NoCur
  /\ lastOp' = OpDone("query", "ok", 0, r.text, cur.speaker, cur.store)
  /\ UNCHANGED <<status, ctorWindow, nActors, window, hasGen, lastIndex, schedLog,
                 loopPc, loopCur, aborted, before>>
  /\ UNCHANGED <<winVars, maskVars, extVars>>

\* generateText rejects during a query: the error propagates out of query,
\* past the ephemeral pass.
QueryThrow ==
  /\ pc = "query"
  /\ pc' = "idle"
  /\ cur' = NoCur
  /\ lastOp' = [Op("query", "generateText_error") EXCEPT !.store = cur.store]
  /\ UNCHANGED <<status, ctorWindow, nActors, window, hasGen, history, nextId,
                 lastIndex, schedLog, loopPc, loopCur, aborted, before>>
  /\ UNCHANGED <<winVars, maskVars, extVars>>

\* conversation.loop({ signal, generateText, scheduler }): creates the async
\* generator; its body runs from the first next() on.
LoopCall(g, own, sig) ==
  /\ Free
  /\ loopPc = "none"
  /\ loopPc' = "start"
  /\ loopCur' = [gen |-> GenerateTextOf(g), ownScheduler |-> own,
                 abortedAt |-> IF sig THEN "before" ELSE ""]
  /\ aborted' = sig
  /\ lastOp' = Op("loop", "created")
  /\ before' = history
  /\ UNCHANGED <<status, ctorWindow, nActors, window, hasGen, history, nextId,
                 lastIndex, schedLog, pc, cur>>
  /\ UNCHANGED <<winVars, maskVars, extVars>>

\* A loop that never tests its signal (while (true)).
LoopIgnoresSignal == TRUE
\* A loop that tests its signal only after the first iteration (do ... while).
LoopContinuesAfterFirstTurn == ~aborted \/ loopPc = "start"
\* The while condition of the loop: !signal.aborted.
LoopContinues == ~aborted

\* The generator ends (it returns or throws): its arguments and its signal are
\* no longer observed.
LoopEnds(outcome) ==
  /\ loopPc' = "none"
  /\ loopCur' = NoLoop
  /\ aborted' = FALSE
  /\ lastOp' = Op("loop", outcome)

\* The consumer's next(): on the first one the two argument checks, then the
\* test of signal.aborted, then a turn with the scheduler's next speaker up to
\* the await of generateText.
LoopNext ==
  /\ Ready
  /\ loopPc \in {"start", "yielded"}
  /\ before' = history
  /\ IF loopPc = "start" /\ ~loopCur.gen
       THEN /\ LoopEnds("no_generateText")
            /\ UNCHANGED <<lastIndex, schedLog, cur>>
     ELSE IF loopPc = "start" /\ ~BoundToThis(loopCur)
       THEN /\ LoopEnds("scheduler_mismatch")
            /\ UNCHANGED <<lastIndex, schedLog, cur>>
     ELSE IF ~LoopContinues
       THEN /\ LoopEnds("done")
            /\ UNCHANGED <<lastIndex, schedLog, cur>>
     ELSE /\ lastIndex < MaxCalls
          /\ lastIndex' = lastIndex + 1
          /\ schedLog' = Append(schedLog, NextSpeaker(lastIndex, nActors))
          /\ IF RenderThrows
               THEN /\ LoopEnds("render_error")
                    /\ UNCHANGED cur
               ELSE /\ loopPc' = "turn"
                    /\ cur' = [NoCur EXCEPT
                                 !.speaker = ActorNames[NextSpeaker(lastIndex, nActors)],
                                 !.prompt = RenderMessages(history)]
                    /\ lastOp' = Op("loop", "pending")
                    /\ UNCHANGED <<loopCur, aborted>>
  /\ UNCHANGED <<status, ctorWindow, nActors, window, hasGen, history, nextId, pc>>
  /\ UNCHANGED <<winVars, maskVars, extVars>>

\* generateText resolves to r inside the loop's turn: the turn commits and the
\* generator yields its response.
LoopTurnReturn(r) ==
  /\ loopPc = "turn"
  /\ nextId + 1 <= 2 * MaxMsgs
  /\ history' = TurnCommit(history, nextId, cur.speaker, r)
  /\ nextId' = nextId + 2
  /\ loopPc' = "yielded"
  /\ cur' = NoCur
  /\ lastOp' = OpDone("loop", "yielded", nextId + 1, r.text, cur.speaker, NoStore)
  /\ UNCHANGED <<status, ctorWindow, nActors, window, hasGen, lastIndex, schedLog,
                 pc, loopCur, aborted, before>>
  /\ UNCHANGED <<winVars, maskVars, extVars>>

\* generateText rejects inside the loop's turn: the generator throws and ends.
LoopTurnThrow ==
  /\ loopPc = "turn"
  /\ LoopEnds("generateText_error")
  /\ cur' = NoCur
  /\ history' = TurnFailed(history)
  /\ UNCHANGED <<status, ctorWindow, nActors, window, hasGen, nextId,
                 lastIndex, schedLog, pc, before>>
  /\ UNCHANGED <<winVars, maskVars, extVars>>

\* AbortController.abort() on the loop's signal, at any moment of the loop.
Abort ==
  /\ loopPc # "none"
  /\ ~aborted
  /\ aborted' = TRUE
  /\ loopCur' = [loopCur EXCEPT !.abortedAt = loopPc]
  /\ UNCHANGED <<status, ctorWindow, nActors, window, hasGen, history, nextId,
                 lastIndex, schedLog, pc, cur, loopPc, lastOp, before>>
  /\ UNCHANGED <<winVars, maskVars, extVars>>

Next ==
  \/ \E n \in 1..MaxActors, g \in BOOLEAN, w \in WindowArgs : Construct(n, g, w)
  \/ \E e \in BOOLEAN : Inject(System, TxtWelcome, e)
  \/ CleanEphemeralCall
  \/ GetNextSpeakerCall
  \/ \E sp \in 0..nActors, g \in BOOLEAN : Turn(sp, g)
  \/ \E r \in GenResults : TurnReturn(r)
  \/ TurnThrow
  \/ \E a \in 1..nActors, st \in StoreArgs, g \in BOOLEAN : Query(System, a, TxtWhy, st, g)
  \/ \E r \in GenResults : QueryReturn(r)
  \/ QueryThrow
  \/ \E g \in BOOLEAN, own \in BOOLEAN, sig \in BOOLEAN : LoopCall(g, own, sig)
  \/ LoopNext
  \/ \E r \in GenResults : LoopTurnReturn(r)
  \/ LoopTurnThrow
  \/ Abort

Spec == Init /\ [][Next]_vars

\* The calls that consult the scheduler (getNextSpeaker, turn, loop) on their
\* own: no inject, query or direct cleanEphemeral is made.
NextScheduling ==
  \/ \E n \in 1..MaxActors, g \in BOOLEAN, w \in WindowArgs : Construct(n, g, w)
  \/ GetNextSpeakerCall
  \/ \E sp \in 0..nActors, g \in BOOLEAN : Turn(sp, g)
  \/ \E r \in GenResults : TurnReturn(r)
  \/ TurnThrow
  \/ \E g \in BOOLEAN, own \in BOOLEAN, sig \in BOOLEAN : LoopCall(g, own, sig)
  \/ LoopNext
  \/ \E r \in GenResults : LoopTurnReturn(r)
  \/ LoopTurnThrow
  \/ Abort

SpecScheduling == Init /\ [][NextScheduling]_vars

\* The calls that need a generateText (turn, query, loop on the conversation's
\* own scheduler) with a generateText that rejects whenever it is invoked.
NextRejecting ==
  \/ \E n \in 1..MaxActors, g \in BOOLEAN, w \in WindowArgs : Construct(n, g, w)
  \/ \E e \in BOOLEAN : Inject(System, TxtWelcome, e)
  \/ \E sp \in 0..nActors, g \in BOOLEAN : Turn(sp, g)
  \/ TurnThrow
  \/ \E a \in 1..nActors, st \in StoreArgs, g \in BOOLEAN : Query(System, a, TxtWhy, st, g)
  \/ QueryThrow
  \/ \E g \in BOOLEAN : LoopCall(g, TRUE, FALSE)
  \/ LoopNext
  \/ LoopTurnThrow

SpecRejecting == Init /\ [][NextRejecting]_vars

\* ------------------------------------------------------- window builder
\* util.ts heuristic: Math.ceil(text.split(" ").length * 0.75); the split of a
\* text on single spaces has one part more than the text has spaces.
RECURSIVE Spaces(_)
Spaces(text) ==
  IF text = <<>> THEN 0
  ELSE (IF Head(text) = " " THEN 1 ELSE 0) + Spaces(Tail(text))
SplitLength(text) == Spaces(text) + 1
Heuristic(text) == (3 * SplitLength(text) + 3) \div 4

TxtA == <<"a">>
TxtABC == <<"a", " ", "b", " ", "c">>

\* ActorData as the window builder reads it: keep is "true", "false" or
\* "undefined"; priority and tokens (the length of the token list) may be Undef.
Entries ==
  { [value |-> v.value, tokens |-> v.tokens, priority |-> p, keep |-> k] :
      v \in { [value |-> TxtA, tokens |-> Undef], [value |-> TxtABC, tokens |-> 0] },
      p \in {Undef} \cup 0..MaxPriority,
      k \in {"true", "false", "undefined"} }

\* The (section, type) keys of the two buckets of an input, in key order.
BucketKeys == << [section |-> "context", type |-> "topic"],
                 [section |-> "persona", type |-> "trait"] >>

\* An input of two buckets: the entries in the first bucket, or all but the
\* last in the first bucket and the last in the second one.
WinInput(entries, split) ==
  LET n == IF split THEN Len(entries) - 1 ELSE Len(entries)
  IN << [section |-> BucketKeys[1].section, type |-> BucketKeys[1].type,
         values |-> SubSeq(entries, 1, n)],
        [section |-> BucketKeys[2].section, type |-> BucketKeys[2].type,
         values |-> SubSeq(entries, n + 1, Len(entries))] >>

\* The first loop of buildWindow: every value with its 0-based index in its
\* bucket, its section and its type, in iteration order.
IndexedValues(bucket) ==
  [ i \in 1..Len(bucket.values) |->
      [value |-> bucket.values[i].value, tokens |-> bucket.values[i].tokens,
       priority |-> bucket.values[i].priority, keep |-> bucket.values[i].keep,
       index |-> i - 1, section |-> bucket.section, type |-> bucket.type] ]
RECURSIVE Flatten(_)
Flatten(input) ==
  IF input = <<>> THEN <<>>
  ELSE IndexedValues(Head(input)) \o Flatten(Tail(input))

\* The comparator of the sort.
OrZero(x) == IF x = Undef THEN 0 ELSE x
\* A comparator that ranks by priority before keep.
ComparePriorityFirst(a, b) ==
  IF OrZero(a.priority) # OrZero(b.priority) THEN OrZero(b.priority) - OrZero(a.priority)
  ELSE IF a.keep # b.keep THEN (IF a.keep = "true" THEN -1 ELSE 1)
  ELSE b.index - a.index
Compare(a, b) ==
  IF a.keep # b.keep THEN (IF a.keep = "true" THEN -1 ELSE 1)
  ELSE IF a.priority # b.priority THEN OrZero(b.priority) - OrZero(a.priority)
  ELSE b.index - a.index

\* Array.prototype.sort is stable and, for a consistent comparator, yields the
\* one stable ordering; for a comparator that is not consistent on the array
\* the order is implementation-defined (any permutation).
Sign(x) == IF x < 0 THEN -1 ELSE IF x > 0 THEN 1 ELSE 0
Range(s) == { s[i] : i \in 1..Len(s) }
ConsistentOn(S) ==
  /\ \A a \in S, b \in S : Sign(Compare(a, b)) = 0 - Sign(Compare(b, a))
  /\ \A a \in S, b \in S, c \in S :
       /\ (Compare(a, b) = 0 /\ Compare(b, c) = 0) => Compare(a, c) = 0
       /\ (Compare(a, b) < 0 /\ Compare(b, c) < 0) => Compare(a, c) < 0
RECURSIVE InsertSorted(_, _)
InsertSorted(x, s) ==
  IF s = <<>> THEN <<x>>
  ELSE IF Compare(x, Head(s)) < 0 THEN <<x>> \o s
  ELSE <<Head(s)>> \o InsertSorted(x, Tail(s))
RECURSIVE StableSort(_)
StableSort(s) ==
  IF s = <<>> THEN <<>>
  ELSE InsertSorted(s[Len(s)], StableSort(SubSeq(s, 1, Len(s) - 1)))
Orderings(s) ==
  { [i \in 1..Len(s) |-> s[f[i]]] :
      f \in { g \in [1..Len(s) -> 1..Len(s)] : \A i, j \in 1..Len(s) : i # j => g[i] # g[j] } }
SortOutcomes(s) ==
  IF ConsistentOn(Range(s)) THEN {StableSort(s)} ELSE Orderings(s)

\* The cost of a value: value.tokens?.length ?? heuristic(value.value).
TokenLength(v) == IF v.tokens # Undef THEN v.tokens ELSE Heuristic(v.value)

\* A walk that tests the running total without the candidate's cost.
RECURSIVE WalkTestsTotalOnly(_, _, _)
WalkTestsTotalOnly(sorted, currentTokens, maxTokens) ==
  IF sorted = <<>> THEN <<>>
  ELSE IF currentTokens > maxTokens THEN <<>>
  ELSE <<Head(sorted)>> \o
       WalkTestsTotalOnly(Tail(sorted), currentTokens + TokenLength(Head(sorted)), maxTokens)
\* A walk that skips a value that does not fit and goes on (continue for break).
RECURSIVE WalkSkips(_, _, _)
WalkSkips(sorted, currentTokens, maxTokens) ==
  IF sorted = <<>> THEN <<>>
  ELSE IF currentTokens + TokenLength(Head(sorted)) > maxTokens
    THEN WalkSkips(Tail(sorted), currentTokens, maxTokens)
  ELSE <<Head(sorted)>> \o
       WalkSkips(Tail(sorted), currentTokens + TokenLength(Head(sorted)), maxTokens)
\* The walk over the sorted values: values are accepted until the first one
\* whose cost would take the running total past maxTokens, where it breaks.
RECURSIVE Walk(_, _, _)
Walk(sorted, currentTokens, maxTokens) ==
  IF sorted = <<>> THEN <<>>
  ELSE IF currentTokens + TokenLength(Head(sorted)) > maxTokens THEN <<>>
  ELSE <<Head(sorted)>> \o
       Walk(Tail(sorted), currentTokens + TokenLength(Head(sorted)), maxTokens)

\* The last loop: per (section, type) the accepted values sorted by index
\* ascending (indexes within a bucket are distinct), as a set of buckets; only
\* buckets with an accepted value exist.
RECURSIVE InsertByIndex(_, _)
InsertByIndex(x, s) ==
  IF s = <<>> THEN <<x>>
  ELSE IF x.index < Head(s).index THEN <<x>> \o s
  ELSE <<Head(s)>> \o InsertByIndex(x, Tail(s))
\* A last loop that leaves each bucket in the order of acceptance.
AcceptanceOrder(s) == s
RECURSIVE SortByIndex(_)
SortByIndex(s) ==
  IF s = <<>> THEN <<>>
  ELSE InsertByIndex(s[Len(s)], SortByIndex(SubSeq(s, 1, Len(s) - 1)))
OfBucket(accepted, key) ==
  SelectSeq(accepted, LAMBDA v : v.section = key.section /\ v.type = key.type)
OrderedValues(accepted) ==
  { [section |-> v.section, type |-> v.type,
     values |-> SortByIndex(OfBucket(accepted, v))] : v \in Range(accepted) }
\* The map that drops index, section and type.
Strip(values) ==
  [ i \in 1..Len(values) |->
      [value |-> values[i].value, tokens |-> values[i].tokens,
       priority |-> values[i].priority, keep |-> values[i].keep] ]
OutputValues(kept) ==
  { [section |-> b.section, type |-> b.type, values |-> Strip(b.values)] : b \in kept }

\* An input collection of at most MaxEntries entries is chosen.
WinInit ==
  /\ ConvInit
  /\ MaskIdle
  /\ ExtIdle
  /\ winPc = "input"
  /\ \E n \in 0..MaxEntries, split \in BOOLEAN :
       /\ split => n > 0
       /\ \E entries \in [1..n -> Entries] : winInput = WinInput(entries, split)
  /\ winBudget = 0
  /\ winFlat = <<>>
  /\ winSorted = <<>>
  /\ winKept = {}
  /\ winOutput = {}

\* A builder that sorts the lists of the input collection themselves.
InputSortedInPlace(input) ==
  [ b \in 1..Len(input) |->
      [input[b] EXCEPT !.values = Strip(StableSort(IndexedValues(input[b])))] ]
\* inputValues after a run: the first loop pushes copies ({ ...value, index,
\* section, type }) to an array of its own, and both sorts work on arrays the
\* run made, so the collection is as it was.
InputAfter(input) == input

\* buildWindow(inputValues, maxTokens)
BuildWindow(maxTokens) ==
  /\ winPc = "input"
  /\ winPc' = "done"
  /\ winBudget' = maxTokens
  /\ winFlat' = Flatten(winInput)
  /\ winSorted' \in SortOutcomes(winFlat')
  /\ winKept' = OrderedValues(Walk(winSorted', 0, maxTokens))
  /\ winOutput' = OutputValues(winKept')
  /\ winInput' = InputAfter(winInput)
  /\ UNCHANGED <<convVars, maskVars, extVars>>

WinNext == \E maxTokens \in 0..MaxBudget : BuildWindow(maxTokens)

SpecWindow == WinInit /\ [][WinNext]_vars

\* The sort of a second run in the same engine: the order is computed anew, and
\* where the comparator leaves it to the implementation, the implementation
\* orders the array it has ordered before as it did before.
SortAgain(flat, prevFlat, prevSorted) ==
  IF ConsistentOn(Range(flat)) THEN {StableSort(flat)}
  ELSE IF flat = prevFlat THEN {prevSorted}
  ELSE Orderings(flat)

\* buildWindow(inputValues, maxTokens) once more, with the collection and the
\* budget of the first run.
BuildWindowAgain ==
  /\ winPc = "done"
  /\ winPc' = "again"
  /\ winFlat' = Flatten(winInput)
  /\ winSorted' \in SortAgain(winFlat', winFlat, winSorted)
  /\ winKept' = OrderedValues(Walk(winSorted', 0, winBudget))
  /\ winOutput' = OutputValues(winKept')
  /\ winInput' = InputAfter(winInput)
  /\ UNCHANGED winBudget
  /\ UNCHANGED <<convVars, maskVars, extVars>>

TwiceNext ==
  \/ \E maxTokens \in 0..MaxBudget : BuildWindow(maxTokens)
  \/ BuildWindowAgain

SpecTwice == WinInit /\ [][TwiceNext]_vars

\* ------------------------------------------------------ history feedback
\* The conversation right after new Conversation(name, { actors, generateText,
\* messages }) with n actors, with (g) or without a generateText, and no
\* window: the messages passed are pushed to the history as they are.
BuiltWith(n, g, messages) ==
  /\ status = "ok"
  /\ ctorWindow = NoWindow
  /\ nActors = n
  /\ window = NoWindow
  /\ hasGen = g
  /\ history = messages
  /\ nextId = Len(messages) + 1
  /\ lastIndex = 0
  /\ schedLog = <<>>
  /\ pc = "idle"
  /\ cur = NoCur
  /\ loopPc = "none"
  /\ loopCur = NoLoop
  /\ aborted = FALSE
  /\ lastOp = Op("construct", "ok")
  /\ before = <<>>
\* The same without messages.
Built(n, g) == BuiltWith(n, g, <<>>)

\* A message object written by the caller with no feedback property.
Literal(id, actor, text, ephemeral) ==
  [id |-> id, actor |-> actor, text |-> text, tokens |-> Undef, embeddings |-> Undef,
   ephemeral |-> ephemeral, feedback |-> Undef]

\* The feedback array with identity ref in the heap fb, as <<up, down>>.
Counter(fb, ref) == IF ref \in DOMAIN fb THEN fb[ref] ELSE <<0, 0>>
\* The number of up and down votes recorded in the heap.
RECURSIVE Votes(_, _)
Votes(fb, refs) ==
  IF refs = {} THEN 0
  ELSE LET r == CHOOSE x \in refs : TRUE
       IN fb[r][1] + fb[r][2] + Votes(fb, refs \ {r})

\* A feedback counter that is counted down.
Decrement(n) == n - 1
\* message.feedback[k]++
Increment(n) == n + 1
\* The heap after message.feedback[k]++ on the array with identity ref
\* (k = 1 for up, 2 for down).
Bump(fb, ref, k) ==
  [ r \in DOMAIN fb \cup {ref} |->
      IF r = ref THEN [Counter(fb, ref) EXCEPT ![k] = Increment(@)] ELSE fb[r] ]

\* The member of the history with identity id.
Member(s, id) == s[CHOOSE i \in 1..Len(s) : s[i].id = id]
\* this.messages.includes(message) for the message object with identity id.
Includes(s, id) == \E i \in 1..Len(s) : s[i].id = id

\* conversation.history.push({ actor, text, ephemeral }): a message written
\* without feedback.
HistoryPush(actor, text, ephemeral) ==
  /\ Free
  /\ Len(history) < MaxMsgs
  /\ nextId + 1 <= 2 * MaxMsgs
  /\ history' = Push(history, Literal(nextId, actor, text, ephemeral), nextId + 1)
  /\ nextId' = nextId + 2
  /\ lastOp' = OpRet("push", "ok", nextId + 1)
  /\ before' = history
  /\ UNCHANGED <<status, ctorWindow, nActors, window, hasGen, lastIndex, schedLog,
                 pc, cur, loopPc, loopCur, aborted>>
  /\ UNCHANGED <<winVars, maskVars, extVars>>

\* conversation.history.push(message) with a message that is in the history
\* (history.messages[i - 1]): it is stored once more, as a copy.
HistoryPushMember(i) ==
  /\ Free
  /\ Len(history) < MaxMsgs
  /\ nextId <= 2 * MaxMsgs
  /\ history' = Push(history, history[i], nextId)
  /\ nextId' = nextId + 1
  /\ lastOp' = OpRet("push", "again", nextId)
  /\ before' = history
  /\ UNCHANGED <<status, ctorWindow, nActors, window, hasGen, lastIndex, schedLog,
                 pc, cur, loopPc, loopCur, aborted>>
  /\ UNCHANGED <<winVars, maskVars, extVars>>

\* conversation.history.up(message) (k = 1) and .down(message) (k = 2) for the
\* message object with identity id: a member of the history, an object that
\* the last call removed, or (id = nextId) a new object equal to a member by
\* value.
Vote(name, id, k) ==
  /\ Free
  /\ Includes(history, id) \/ Includes(before, id) \/ id = nextId
  /\ Votes(feedback, DOMAIN feedback) < MaxVotes
  /\ before' = history
  /\ IF ~Includes(history, id)
       THEN /\ lastOp' = OpRet(name, "not_found", id)
            /\ UNCHANGED feedback
       ELSE /\ lastOp' = OpRet(name, "ok", id)
            /\ feedback' = Bump(feedback, Member(history, id).feedback, k)
  /\ UNCHANGED <<status, ctorWindow, nActors, window, hasGen, history, nextId, lastIndex,
                 schedLog, pc, cur, loopPc, loopCur, aborted>>
  /\ UNCHANGED <<winVars, maskVars, obsVars, asyncVars, ctxVars>>
Up(id) == Vote("up", id, 1)
Down(id) == Vote("down", id, 2)

\* A conversation of one actor whose history is pushed to, voted on and swept.
HistInit == Built(1, FALSE) /\ WinIdle /\ MaskIdle /\ ExtIdle

HistNext ==
  \/ \E e \in BOOLEAN : HistoryPush(System, TxtWelcome, e)
  \/ \E i \in 1..Len(history) : HistoryPushMember(i)
  \/ \E id \in 1..nextId : Up(id)
  \/ \E id \in 1..nextId : Down(id)
  \/ CleanEphemeralCall

SpecHistory == HistInit /\ [][HistNext]_vars

\* A conversation of two actors with a generateText that resolves, whose
\* history is changed by every operation that changes it: push, inject, turn
\* with a named speaker, query and cleanEphemeral.
ChangeInit == Built(2, TRUE) /\ WinIdle /\ MaskIdle /\ ExtIdle

ChangeNext ==
  \/ \E e \in BOOLEAN : HistoryPush(System, TxtWelcome, e)
  \/ \E e \in BOOLEAN : Inject(System, TxtWelcome, e)
  \/ \E sp \in 1..nActors : Turn(sp, FALSE)
  \/ \E r \in GenResults : TurnReturn(r)
  \/ \E a \in 1..nActors, st \in StoreArgs : Query(System, a, TxtWhy, st, FALSE)
  \/ \E r \in GenResults : QueryReturn(r)
  \/ CleanEphemeralCall

SpecChange == ChangeInit /\ [][ChangeNext]_vars

\* ------------------------------------------------------ overlapping turns
\* The number of turns invoked so far.
Invoked == Len(commits) + Cardinality(inflight)

\* conversation.turn({ speaker }) called without waiting for the turns called
\* before it: the speaker is chosen (sp = 0 asks the scheduler) and the prompt
\* rendered before the call suspends at the await of generateText.
TurnInvoke(sp) ==
  /\ status = "ok"
  /\ GenerateTextOf(FALSE)
  /\ ~RenderThrows
  /\ Invoked < MaxCalls
  /\ lastIndex' = IF Consults(sp) THEN lastIndex + 1 ELSE lastIndex
  /\ schedLog' = IF Consults(sp) THEN Append(schedLog, NextSpeaker(lastIndex, nActors))
                           ELSE schedLog
  /\ LET speaker == IF Consults(sp) THEN NextSpeaker(lastIndex, nActors) ELSE sp
     IN inflight' = inflight \cup
          {[call |-> Invoked + 1, speaker |-> ActorNames[speaker],
            prompt |-> RenderMessages(history)]}
  /\ lastOp' = OpArg("turn", "pending", FALSE)
  /\ before' = history
  /\ UNCHANGED commits
  /\ UNCHANGED <<status, ctorWindow, nActors, window, hasGen, history, nextId,
                 pc, cur, loopPc, loopCur, aborted>>
  /\ UNCHANGED <<winVars, maskVars, fbVars, obsVars, ctxVars>>

\* The generateText awaited by the suspended turn c resolves to r: the turn
\* builds its message, pushes it, sweeps the ephemeral messages and returns.
TurnResolve(c, r) ==
  /\ c \in inflight
  /\ history' = TurnCommit(history, nextId, c.speaker, r)
  /\ nextId' = nextId + 2
  /\ inflight' = inflight \ {c}
  /\ commits' = Append(commits, [call |-> c.call, id |-> nextId + 1])
  /\ lastOp' = OpDone("turn", "ok", nextId + 1, r.text, c.speaker, NoStore)
  /\ UNCHANGED <<status, ctorWindow, nActors, window, hasGen, lastIndex, schedLog,
                 pc, cur, loopPc, loopCur, aborted, before>>
  /\ UNCHANGED <<winVars, maskVars, fbVars, obsVars, ctxVars>>

\* A conversation of MaxActors actors with a generateText whose calls resolve
\* in any order.
ConcurrentInit == Built(MaxActors, TRUE) /\ WinIdle /\ MaskIdle /\ ExtIdle

ConcurrentNext ==
  \/ \E sp \in 0..nActors : TurnInvoke(sp)
  \/ \E c \in inflight, r \in GenResults : TurnResolve(c, r)

SpecConcurrent == ConcurrentInit /\ [][ConcurrentNext]_vars

\* ---------------------------------------------------- conversation context
MaxSets == 2

\* The names and values given to context.set.
CtxNames == {"topic"}
CtxValues == {"v1", "v2"}
\* actor.context[name]: undefined, or the array of the entries pushed.
NoEntry == [defined |-> FALSE, entries |-> <<>>]
EntryOf(entries) == [defined |-> TRUE, entries |-> entries]
\* The ActorData that context.set builds (priority ?? 0; tokens stands for the
\* tokens and embeddings, generated when asked for by true).
Data(name, value, gen) == [name |-> name, value |-> value, priority |-> 0, tokens |-> gen]

\* const entry = actor.context[name] ?? []; entry.push(data);
\* actor.context[name] = entry, for the actor at position a.
SetFor(ctx, a, data) ==
  [ctx EXCEPT ![a][data.name] = EntryOf(Append(@.entries, data))]
\* The same for the actors at positions a..b, one after the other.
RECURSIVE SetForAll(_, _, _, _)
SetForAll(ctx, a, b, data) ==
  IF a > b THEN ctx ELSE SetForAll(SetFor(ctx, a, data), a + 1, b, data)
\* delete actor.context[name] for every actor.
DelForAll(ctx, name) == [a \in DOMAIN ctx |-> [ctx[a] EXCEPT ![name] = NoEntry]]
\* context.get: the loop returns in its first iteration, with the entry of the
\* first actor.
CtxGet(ctx, name) == IF DOMAIN ctx = {} THEN NoEntry ELSE ctx[1][name]

\* conversation.context.set(name, description, value, { tokens }): with tokens
\* (or embeddings) true the loop awaits the generator before it pushes for an
\* actor, and the call is suspended in the iteration of the first actor;
\* otherwise nothing is awaited and the call pushes for every actor at once.
ContextSet(name, value, gen) ==
  /\ setCount < MaxSets
  /\ setCount' = setCount + 1
  /\ IF gen
       THEN /\ setCalls' = setCalls \cup
                   {[call |-> setCount + 1, data |-> Data(name, value, gen), actor |-> 1]}
            /\ lastOp' = Op("context.set", "pending")
            /\ UNCHANGED context
       ELSE /\ context' = SetForAll(context, 1, nActors, Data(name, value, gen))
            /\ lastOp' = Op("context.set", "ok")
            /\ UNCHANGED setCalls
  /\ UNCHANGED <<status, ctorWindow, nActors, window, hasGen, history, nextId, lastIndex,
                 schedLog, pc, cur, loopPc, loopCur, aborted, before>>
  /\ UNCHANGED <<winVars, maskVars, fbVars, obsVars, asyncVars>>

\* The generator awaited by the suspended call c resolves: the call pushes for
\* its actor and awaits the generator for the next actor, or returns after the
\* last.
ContextSetResume(c) ==
  /\ c \in setCalls
  /\ context' = SetFor(context, c.actor, c.data)
  /\ IF c.actor < nActors
       THEN /\ setCalls' = (setCalls \ {c}) \cup {[c EXCEPT !.actor = @ + 1]}
            /\ lastOp' = Op("context.set", "pending")
       ELSE /\ setCalls' = setCalls \ {c}
            /\ lastOp' = Op("context.set", "ok")
  /\ UNCHANGED setCount
  /\ UNCHANGED <<status, ctorWindow, nActors, window, hasGen, history, nextId, lastIndex,
                 schedLog, pc, cur, loopPc, loopCur, aborted, before>>
  /\ UNCHANGED <<winVars, maskVars, fbVars, obsVars, asyncVars>>

\* conversation.context.del(name)
ContextDel(name) ==
  /\ context' = DelForAll(context, name)
  /\ lastOp' = Op("context.del", "ok")
  /\ UNCHANGED <<setCalls, setCount>>
  /\ UNCHANGED <<status, ctorWindow, nActors, window, hasGen, history, nextId, lastIndex,
                 schedLog, pc, cur, loopPc, loopCur, aborted, before>>
  /\ UNCHANGED <<winVars, maskVars, fbVars, obsVars, asyncVars>>

\* conversation.context.get(name)
ContextGet(name) ==
  /\ result' = [name |-> name, entry |-> CtxGet(context, name)]
  /\ lastOp' = Op("context.get", "ok")
  /\ UNCHANGED <<status, ctorWindow, nActors, window, hasGen, history, nextId, lastIndex,
                 schedLog, pc, cur, loopPc, loopCur, aborted, before>>
  /\ UNCHANGED <<winVars, maskVars, fbVars, asyncVars, ctxVars>>

\* A conversation of MaxActors actors constructed with empty contexts.
CtxInit ==
  /\ Built(MaxActors, FALSE)
  /\ WinIdle /\ MaskIdle /\ FbIdle /\ ObsIdle /\ AsyncIdle
  /\ context = [a \in 1..MaxActors |-> [name \in CtxNames |-> NoEntry]]
  /\ setCalls = {}
  /\ setCount = 0

CtxNext ==
  \/ \E name \in CtxNames, value \in CtxValues, gen \in BOOLEAN : ContextSet(name, value, gen)
  \/ \E c \in setCalls : ContextSetResume(c)
  \/ \E name \in CtxNames : ContextDel(name)
  \/ \E name \in CtxNames : ContextGet(name)

SpecContext == CtxInit /\ [][CtxNext]_vars

\* A conversation with a generateText that resolves, on which every call that
\* could move the cursor of the scheduler is made: getNextSpeaker, inject,
\* turn with and without a speaker, query, and the loop.
CursorInit == Built(MaxActors, TRUE) /\ WinIdle /\ MaskIdle /\ ExtIdle

CursorNext ==
  \/ GetNextSpeakerCall
  \/ \E e \in BOOLEAN : Inject(System, TxtWelcome, e)
  \/ \E sp \in 0..nActors : Turn(sp, FALSE)
  \/ \E r \in GenResults : TurnReturn(r)
  \/ \E st \in StoreArgs : Query(System, 1, TxtWhy, st, FALSE)
  \/ \E r \in GenResults : QueryReturn(r)
  \/ LoopCall(FALSE, TRUE, FALSE)
  \/ LoopNext
  \/ \E r \in GenResults : LoopTurnReturn(r)
  \/ Abort

SpecCursor == CursorInit /\ [][CursorNext]_vars

\* A conversation with a generateText that resolves, on which loops run: the
\* consumer keeps asking for the next response, every call of generateText
\* returns (it resolves, or it rejects), and the signal of a running loop is
\* aborted at some moment.
LiveInit == Built(MaxActors, TRUE) /\ WinIdle /\ MaskIdle /\ ExtIdle

LiveNext ==
  \/ \E sig \in BOOLEAN : LoopCall(FALSE, TRUE, sig)
  \/ LoopNext
  \/ \E r \in GenResults : LoopTurnReturn(r)
  \/ LoopTurnThrow
  \/ Abort

SpecLive ==
  /\ LiveInit
  /\ [][LiveNext]_vars
  /\ WF_vars(LoopNext)
  /\ WF_vars(\E r \in GenResults : LoopTurnReturn(r))
  /\ WF_vars(Abort)

\* ------------------------------------------------------ history statistics
MaxStatMsgs == 4

\* A message object written by the caller in full, with its own [0, 0].
Whole(id, actor, text) == [Literal(id, actor, text, FALSE) EXCEPT !.feedback = id]
\* The actors and the texts of the messages the statistics are taken of.
StatActors == {ActorNames[1], ActorNames[2]}
StatTexts == {<<>>, TxtOk}

\* getMessagesFor(actor): the entries of the Map in insertion order; the key is
\* the index the callback of map receives, which is the index in the array
\* that filter returned.
Filter(s, actor) == SelectSeq(s, LAMBDA message : message.actor = actor)
GetMessagesFor(s, actor) ==
  [ i \in 1..Len(Filter(s, actor)) |-> [key |-> i - 1, value |-> Filter(s, actor)[i]] ]

\* b / a in place of a / b.
DivideInverted(a, b) == [num |-> b, den |-> a]
\* a / b of two numbers as the fraction it is; a denominator of 0 is the NaN
\* of 0 / 0 (no count exceeds its total, so there is no Infinity).
Divide(a, b) == [num |-> a, den |-> b]

\* textTotal after the first loop of getStats over the first n messages.
RECURSIVE TextTotal(_, _)
TextTotal(s, n) == IF n = 0 THEN 0 ELSE TextTotal(s, n - 1) + Len(s[n].text)
\* stats after the first loop of getStats over the first n messages.
RECURSIVE Tally(_, _)
Tally(s, n) ==
  IF n = 0 THEN <<>>
  ELSE LET stats == Tally(s, n - 1)
           message == s[n]
           old == IF message.actor \in DOMAIN stats THEN stats[message.actor]
                  ELSE [count |-> 0, textCount |-> 0]
       IN [ actor \in DOMAIN stats \cup {message.actor} |->
              IF actor = message.actor
                THEN [count |-> old.count + 1,
                      textCount |-> old.textCount + Len(message.text)]
                ELSE stats[actor] ]
\* getStats(): the second loop adds the two shares to every actor's entry.
GetStats(s) ==
  LET stats == Tally(s, Len(s))
      total == Len(s)
      textTotal == TextTotal(s, Len(s))
  IN [ actor \in DOMAIN stats |->
         [count |-> stats[actor].count,
          textCount |-> stats[actor].textCount,
          percentage |-> Divide(stats[actor].count, total),
          textPercentage |-> Divide(stats[actor].textCount, textTotal)] ]

\* conversation.history.getMessagesFor(actor)
GetMessagesForCall(actor) ==
  /\ Free
  /\ result' = GetMessagesFor(history, actor)
  /\ lastOp' = [Op("getMessagesFor", "ok") EXCEPT !.speaker = actor]
  /\ before' = history
  /\ UNCHANGED <<status, ctorWindow, nActors, window, hasGen, history, nextId, lastIndex,
                 schedLog, pc, cur, loopPc, loopCur, aborted>>
  /\ UNCHANGED <<winVars, maskVars, fbVars, asyncVars, ctxVars>>

\* conversation.history.getStats()
GetStatsCall ==
  /\ Free
  /\ result' = GetStats(history)
  /\ lastOp' = Op("getStats", "ok")
  /\ before' = history
  /\ UNCHANGED <<status, ctorWindow, nActors, window, hasGen, history, nextId, lastIndex,
                 schedLog, pc, cur, loopPc, loopCur, aborted>>
  /\ UNCHANGED <<winVars, maskVars, fbVars, asyncVars, ctxVars>>

\* A conversation of two actors constructed with up to MaxStatMsgs messages.
StatInit ==
  /\ \E n \in 0..MaxStatMsgs :
       \E actorOf \in [1..n -> StatActors], textOf \in [1..n -> StatTexts] :
         BuiltWith(2, FALSE, [i \in 1..n |-> Whole(i, actorOf[i], textOf[i])])
  /\ WinIdle /\ MaskIdle /\ ExtIdle

StatNext ==
  \/ \E actor \in StatActors : GetMessagesForCall(actor)
  \/ GetStatsCall

SpecStats == StatInit /\ [][StatNext]_vars

\* ----------------------------------------------------------- history mask
TxtSix == <<"a", " ", "b", " ", "c", " ", "d", " ", "e", " ", "f">>

\* The length mask gives a message: message.embeddings ?
\* message.embeddings.length : heuristic(message.text) (an empty vector is
\* truthy, so it counts 0).
MessageLength(message) ==
  IF message.embeddings # Undef THEN message.embeddings ELSE Heuristic(message.text)

\* A loop that tests the running total without the candidate's length.
RECURSIVE MaskLoopTestsTotalOnly(_, _, _, _)
MaskLoopTestsTotalOnly(messages, i, totalLength, win) ==
  IF i < 1 THEN <<>>
  ELSE IF totalLength > win THEN <<>>
  ELSE <<messages[i]>> \o
       MaskLoopTestsTotalOnly(messages, i - 1, totalLength + MessageLength(messages[i]), win)
\* A loop that skips a message that does not fit and goes on (continue for break).
RECURSIVE MaskLoopSkips(_, _, _, _)
MaskLoopSkips(messages, i, totalLength, win) ==
  IF i < 1 THEN <<>>
  ELSE IF totalLength + MessageLength(messages[i]) > win
    THEN MaskLoopSkips(messages, i - 1, totalLength, win)
  ELSE <<messages[i]>> \o
       MaskLoopSkips(messages, i - 1, totalLength + MessageLength(messages[i]), win)
\* The for loop of mask from position i (1-based) down: the messages pushed to
\* unmasked, newest first, until the first one that would overflow the window.
RECURSIVE MaskLoop(_, _, _, _)
MaskLoop(messages, i, totalLength, win) ==
  IF i < 1 THEN <<>>
  ELSE IF totalLength + MessageLength(messages[i]) > win THEN <<>>
  ELSE <<messages[i]>> \o
       MaskLoop(messages, i - 1, totalLength + MessageLength(messages[i]), win)

\* Array.prototype.reverse
Reverse(s) == [ i \in 1..Len(s) |-> s[Len(s) + 1 - i] ]

\* mask(messages, window)
Mask(messages, win) == Reverse(MaskLoop(messages, Len(messages), 0, win))

\* The messages mask is tried on, by text, token list and embedding vector:
\* one word, six words, an embedding vector of length 5, a token list of length 3.
MaskKinds ==
  { [text |-> TxtOk, tokens |-> Undef, embeddings |-> Undef],
    [text |-> TxtSix, tokens |-> Undef, embeddings |-> Undef],
    [text |-> TxtOk, tokens |-> Undef, embeddings |-> 5],
    [text |-> TxtOk, tokens |-> 3, embeddings |-> Undef] }
\* Message i of the list, a message object of its own.
MaskMessage(i, k) == BuildMessage(i, System, k.text, k.tokens, k.embeddings, FALSE)

\* A list of at most MaxMaskMsgs messages is chosen.
MaskInit ==
  /\ ConvInit
  /\ WinIdle
  /\ ExtIdle
  /\ maskPc = "input"
  /\ \E n \in 0..MaxMaskMsgs :
       \E kinds \in [1..n -> MaskKinds] :
         maskInput = [ i \in 1..n |-> MaskMessage(i, kinds[i]) ]
  /\ maskWindow = 0
  /\ maskOutput = <<>>

\* mask(messages, window) is called.
MaskCall(win) ==
  /\ maskPc = "input"
  /\ maskPc' = "done"
  /\ maskWindow' = win
  /\ maskOutput' = Mask(maskInput, win)
  /\ UNCHANGED maskInput
  /\ UNCHANGED <<convVars, winVars, extVars>>

MaskNext == \E win \in 0..MaxMaskWindow : MaskCall(win)

SpecMask == MaskInit /\ [][MaskNext]_vars

\* ------------------------------------------------------------ properties
Last(s) == s[Len(s)]
NonEphemeral(s) == SelectSeq(s, LAMBDA m : ~m.ephemeral)
Ephemerals(s) == SelectSeq(s, LAMBDA m : m.ephemeral)
Ids(s) == { s[i].id : i \in 1..Len(s) }
\* A turn (called directly or by the loop) has returned its response.
TurnCompleted ==
  \/ lastOp.name = "turn" /\ lastOp.outcome = "ok"
  \/ lastOp.name = "loop" /\ lastOp.outcome = "yielded"

\* C1: cleanEphemeral removes every ephemeral message, whatever their number
\* and positions, and leaves the non-ephemeral messages in their order (so
\* without ephemeral messages it changes nothing).
C1_CleanRemovesEveryEphemeral ==
  lastOp.name = "cleanEphemeral" => history = NonEphemeral(before)

\* C2: after a completed turn no ephemeral message remains in the history and
\* every non-ephemeral message of the history before the turn is still there.
C2_TurnSweepsEphemerals ==
  TurnCompleted =>
    /\ Ephemerals(history) = <<>>
    /\ \A i \in 1..Len(before) :
         ~before[i].ephemeral => \E j \in 1..Len(history) : history[j] = before[i]

\* C3: a completed turn commits exactly one new message, non-ephemeral, with
\* the speaker's name and the text generateText returned, and that message is
\* the last of the history after the turn.
C3_TurnCommitsLast ==
  TurnCompleted =>
    /\ Ids(history) \ Ids(before) = {lastOp.ret}
    /\ history # <<>>
    /\ Last(history).id = lastOp.ret
    /\ Last(history).actor = lastOp.speaker
    /\ Last(history).text = lastOp.text
    /\ ~Last(history).ephemeral

\* C4: a completed query with store=false leaves the length of the history as
\* it was before the call; with store=true the history is longer by exactly 2,
\* the query message followed by the answer.
C4_QueryLength ==
  (lastOp.name = "query" /\ lastOp.outcome = "ok" /\ lastOp.store.kind = "boolean") =>
    IF lastOp.store.value
      THEN /\ Len(history) = Len(before) + 2
           /\ history[Len(history) - 1].text = TxtWhy
           /\ Last(history).text = lastOp.text
      ELSE Len(history) = Len(before)

\* C5: when generateText fails during a query, the history after the failed
\* query equals the history before the call (the query message is not left).
C5_FailedQueryLeavesHistory ==
  (lastOp.name = "query" /\ lastOp.outcome = "generateText_error") => history = before

\* C6: construction with a negative window budget (number or { max }) fails,
\* and construction with a non-negative one succeeds and stores the budget.
C6_WindowValidation ==
  (status # "unbuilt" /\ ctorWindow.kind # "undefined") =>
    IF ctorWindow.max < 0
      THEN status = "failed"
      ELSE status = "ok" /\ window = ctorWindow

\* C7: the loop tests the signal before each iteration: from a generator that
\* is not inside a turn and whose signal is aborted no turn is started (the
\* scheduler is not consulted, generateText is not invoked, the history is
\* untouched) and the generator ends; a turn in flight when the signal is
\* aborted is not cancelled: unless generateText itself fails it runs its
\* commit step and yields its response.
C7_LoopCancellation ==
  [][ /\ (loopPc \in {"start", "yielded"} /\ aborted) =>
           /\ loopPc' = "none"
           /\ lastIndex' = lastIndex /\ schedLog' = schedLog
           /\ cur' = cur /\ pc' = pc
           /\ history' = history /\ nextId' = nextId
      /\ (loopPc = "turn" /\ aborted) =>
           \/ lastOp'.outcome = "generateText_error" /\ history' = history
           \/ /\ loopPc' = "yielded"
              /\ \E r \in GenResults : history' = TurnCommit(history, nextId, cur.speaker, r)
              /\ nextId' = nextId + 2 ]_vars

\* A turn that was in flight when the signal was aborted has yielded.
C7_Witness ==
  /\ loopPc = "yielded"
  /\ loopCur.abortedAt = "turn"
  /\ lastOp.outcome = "yielded"
  /\ lastOp.ret \in Ids(history)

\* C8: the k-th getNextSpeaker call on a fresh scheduler (k from 0) returns
\* participant k mod N: N calls visit every participant once in construction
\* order and call N+1 returns participant 0 again.
C8_RoundRobin ==
  /\ Len(schedLog) = lastIndex
  /\ \A k \in 1..Len(schedLog) : schedLog[k] = ((k - 1) % nActors) + 1

\* The scheduler of a conversation of two or more has wrapped around.
C8_Witness ==
  /\ nActors >= 2
  /\ Len(schedLog) = nActors + 1
  /\ schedLog[nActors + 1] = 1
  /\ { schedLog[k] : k \in 1..nActors } = 1..nActors

\* The cost of a sequence of values, and of every value of a set of buckets.
RECURSIVE SeqCost(_)
SeqCost(s) == IF s = <<>> THEN 0 ELSE TokenLength(Head(s)) + SeqCost(Tail(s))
RECURSIVE BucketsCost(_)
BucketsCost(buckets) ==
  IF buckets = {} THEN 0
  ELSE LET b == CHOOSE x \in buckets : TRUE
       IN SeqCost(b.values) + BucketsCost(buckets \ {b})
\* The accepted values with their bookkeeping fields.
KeptSet == UNION { Range(b.values) : b \in winKept }

\* C9: for every collection and every budget >= 0 the costs of the returned
\* entries (token-list length if present, else the heuristic) sum to at most
\* the budget.
C9_WindowBudget ==
  winPc = "done" => BucketsCost(winOutput) <= winBudget

\* The builder returned some entries and rejected others.
C9_Witness ==
  /\ winPc = "done"
  /\ winOutput # {}
  /\ BucketsCost(winOutput) > 0
  /\ Cardinality(KeptSet) < Len(winSorted)

\* C10: the accepted entries are exactly the longest prefix of the sorted
\* sequence whose cumulative cost stays within the budget; after the first
\* overflow no later entry is accepted, even one that would fit.
C10_WindowPrefix ==
  winPc = "done" =>
    \E k \in 0..Len(winSorted) :
      /\ KeptSet = Range(SubSeq(winSorted, 1, k))
      /\ SeqCost(SubSeq(winSorted, 1, k)) <= winBudget
      /\ k < Len(winSorted) => SeqCost(SubSeq(winSorted, 1, k + 1)) > winBudget

\* An entry ranked after the first overflow was rejected although it would
\* still fit next to the accepted ones.
C10_Witness ==
  /\ winPc = "done"
  /\ \E i \in 1..Len(winSorted) :
       /\ winSorted[i] \notin KeptSet
       /\ BucketsCost(winOutput) + TokenLength(winSorted[i]) <= winBudget

\* The indexed values of the input, and the bucket of the input with a key.
WinValues == Flatten(winInput)
InputBucket(key) ==
  CHOOSE b \in Range(winInput) : b.section = key.section /\ b.type = key.type

\* a comes before b in the order of consideration: keep=true first, then the
\* higher priority (unset counting as 0), then the larger within-bucket index.
ConsideredBefore(a, b) ==
  IF (a.keep = "true") # (b.keep = "true") THEN a.keep = "true"
  ELSE IF a.keep # b.keep THEN FALSE
  ELSE IF OrZero(a.priority) # OrZero(b.priority)
    THEN OrZero(a.priority) > OrZero(b.priority)
  ELSE a.section = b.section /\ a.type = b.type /\ a.index > b.index

\* C11: the sorted sequence the walk goes through never has an entry behind
\* one it should be considered before: keep=true first, then higher priority
\* first (unset counting as 0), then the larger within-bucket index first.
C11_ConsiderationOrder ==
  winPc = "done" =>
    \A i \in 1..Len(winSorted), j \in 1..Len(winSorted) :
      i < j => ~ConsideredBefore(winSorted[j], winSorted[i])

\* C12: every bucket of the output lists its retained entries in strictly
\* increasing original index, and every returned entry is the entry at that
\* index of the same bucket of the input.
C12_OrderPreserved ==
  winPc = "done" =>
    /\ \A b \in winKept :
         /\ \A i \in 1..Len(b.values), j \in 1..Len(b.values) :
              i < j => b.values[i].index < b.values[j].index
         /\ \A i \in 1..Len(b.values) :
              /\ b.values[i].index < Len(InputBucket(b).values)
              /\ Strip(b.values)[i] = InputBucket(b).values[b.values[i].index + 1]
    /\ winOutput = OutputValues(winKept)

\* A bucket of the output holds two entries that the walk accepted in the
\* opposite order.
C12_Witness ==
  /\ winPc = "done"
  /\ \E b \in winKept :
       /\ Len(b.values) >= 2
       /\ \E i \in 1..Len(winSorted), j \in 1..Len(winSorted) :
            /\ i < j
            /\ winSorted[i] = b.values[2]
            /\ winSorted[j] = b.values[1]

\* A(keep=true, priority=0) and B(keep=false, higher priority) are the whole
\* collection, each fits the budget and the two together do not.
KeepPrecedenceCase(a, b) ==
  /\ Len(WinValues) = 2
  /\ a.keep = "true" /\ a.priority = 0
  /\ b.keep = "false" /\ b.priority # Undef /\ b.priority > 0
  /\ TokenLength(a) <= winBudget
  /\ TokenLength(b) <= winBudget
  /\ TokenLength(a) + TokenLength(b) > winBudget

\* C13: keep precedence: of A(keep=true, priority=0) and B(keep=false, higher
\* priority) with a budget that fits only one of them, the output holds A and
\* does not hold B.
C13_KeepPrecedence ==
  winPc = "done" =>
    \A a \in Range(WinValues), b \in Range(WinValues) :
      KeepPrecedenceCase(a, b) => (a \in KeptSet /\ b \notin KeptSet)

\* The builder has chosen between such an A and such a B.
C13_Witness ==
  /\ winPc = "done"
  /\ \E a \in Range(WinValues), b \in Range(WinValues) :
       KeepPrecedenceCase(a, b) /\ a \in KeptSet

\* C14: the result is empty for an empty collection, and empty for budget 0
\* whatever entries the collection holds.
C14_EmptyResult ==
  (winPc = "done" /\ (WinValues = <<>> \/ winBudget = 0)) => winOutput = {}

\* The messages of s from position i (1-based) to the end, and their cost.
Suffix(s, i) == SubSeq(s, i, Len(s))
RECURSIVE MessagesLength(_)
MessagesLength(s) ==
  IF s = <<>> THEN 0 ELSE MessageLength(Head(s)) + MessagesLength(Tail(s))

\* C15: mask returns, in chronological order, exactly the longest contiguous
\* suffix of the message list whose total cost does not exceed the window; no
\* older message is included after the first one that would overflow.
C15_MaskLongestSuffix ==
  maskPc = "done" =>
    \E i \in 1..(Len(maskInput) + 1) :
      /\ maskOutput = Suffix(maskInput, i)
      /\ MessagesLength(Suffix(maskInput, i)) <= maskWindow
      /\ i > 1 => MessagesLength(Suffix(maskInput, i - 1)) > maskWindow

\* mask stopped at a message that overflows and left out an older message
\* that would still fit next to the returned ones.
C15_Witness ==
  /\ maskPc = "done"
  /\ maskOutput # <<>>
  /\ \E j \in 1..(Len(maskInput) - Len(maskOutput) - 1) :
       MessagesLength(maskOutput) + MessageLength(maskInput[j]) <= maskWindow

\* mask has run on three messages of cost 5 each with window 8.
ThreeFivesCase ==
  /\ maskPc = "done"
  /\ Len(maskInput) = 3
  /\ \A i \in 1..3 : MessageLength(maskInput[i]) = 5
  /\ maskWindow = 8

\* C16 (as stated): mask of [m0, m1, m2] with costs [5, 5, 5] and window 8
\* returns [m1, m2].
C16_ThreeFivesKeepsTwo ==
  ThreeFivesCase => maskOutput = <<maskInput[2], maskInput[3]>>

\* C16 (amended): mask of [m0, m1, m2] with costs [5, 5, 5] and window 8
\* returns [m2]: m1 and m2 together cost 10, which is more than 8.
C16_ThreeFivesKeepsNewest ==
  ThreeFivesCase => maskOutput = <<maskInput[3]>>

\* mask has returned the newest of three messages of cost 5 for window 8.
C16_Witness ==
  ThreeFivesCase /\ Len(maskOutput) = 1 /\ maskOutput[1].id = 3

\* C17: with a window budget configured a turn with a generateText at hand
\* gets through the render step (its prompt holding the Window Builder's
\* selection of the entries) and goes on to generateText.
C17_WindowedTurnRenders ==
  (window.kind # "undefined" /\ lastOp.name \in {"turn", "loop"}) =>
    lastOp.outcome # "render_error"

\* C18: with a window budget configured the prompt of a turn or query with a
\* generateText at hand is rendered, from the newest messages of the history
\* whose total cost fits the window.
C18_PromptBounded ==
  (window.kind # "undefined" /\ lastOp.name \in {"turn", "query", "loop"}) =>
    /\ lastOp.outcome # "render_error"
    /\ lastOp.outcome = "pending" => cur.prompt = Mask(history, window.max)

\* C19: a loop given a scheduler bound to another conversation starts no
\* turn: from its creation on the scheduler cursor, the history and the call
\* awaiting generateText stay as they are, and at its first step the
\* generator ends, with the binding error when a generateText is at hand.
C19_SchedulerMismatch ==
  [][ (loopPc = "start" /\ ~loopCur.ownScheduler) =>
        /\ lastIndex' = lastIndex /\ schedLog' = schedLog
        /\ history' = history /\ nextId' = nextId
        /\ pc' = pc /\ cur' = cur
        /\ loopPc' \in {"start", "none"}
        /\ (loopPc' = "none" /\ loopCur.gen) =>
             lastOp' = Op("loop", "scheduler_mismatch") ]_vars

\* A loop with a generateText and a foreign scheduler has ended with the
\* binding error.
C19_Witness ==
  /\ lastOp = Op("loop", "scheduler_mismatch")
  /\ loopPc = "none"
  /\ history = before

\* C20: a turn or query called with no generateText argument on a
\* conversation without a default, and a loop with none at hand, fail with
\* the configuration error, and the history after the failed call equals the
\* history before it.
C20_NoGenerateText ==
  /\ (/\ lastOp.name \in {"turn", "query"}
      /\ lastOp.outcome \in {"pending", "render_error", "no_generateText"}
      /\ ~lastOp.arg /\ ~hasGen) => lastOp.outcome = "no_generateText"
  /\ lastOp.outcome = "no_generateText" =>
       /\ history = before
       /\ pc = "idle" /\ loopPc = "none"

\* A call has failed for want of a generateText on a conversation that holds
\* messages.
C20_Witness ==
  /\ lastOp.outcome = "no_generateText"
  /\ history # <<>>

\* The counters of message m in the heap fb.
CounterOf(fb, m) == Counter(fb, m.feedback)

\* C21: up and down on a member of the history add one to its respective
\* counter and change no other counter of any message; on an object that is
\* not a member (even one equal by value to a member) they fail with the
\* not-found error and change no counter.
C21_VoteByIdentity ==
  [][ lastOp'.name \in {"up", "down"} =>
        LET id == lastOp'.ret
            k == IF lastOp'.name = "up" THEN 1 ELSE 2
        IN /\ history' = history
           /\ IF Includes(history, id)
                THEN /\ lastOp'.outcome = "ok"
                     /\ \A i \in 1..Len(history) :
                          CounterOf(feedback', history[i]) =
                            IF history[i].id = id
                              THEN [CounterOf(feedback, history[i]) EXCEPT ![k] = @ + 1]
                              ELSE CounterOf(feedback, history[i])
                ELSE /\ lastOp'.outcome = "not_found"
                     /\ feedback' = feedback ]_vars

\* C22: the message object inject returns is a member of the history (by
\* identity), so that up and down can be called with it.
C22_InjectReturnsMember ==
  lastOp.name = "inject" => Includes(history, lastOp.ret)

\* A message that inject pushed as ephemeral.
InjectedEphemeral(m) == m.ephemeral /\ m.text = TxtWelcome

\* C23: a message injected as ephemeral stays in the history through query
\* calls: every such message of the history a query was called on is still
\* there when the query has returned (it leaves only after the next turn).
C23_EphemeralSurvivesQuery ==
  (lastOp.name = "query" /\ lastOp.outcome = "ok") =>
    \A i \in 1..Len(before) :
      InjectedEphemeral(before[i]) => Includes(history, before[i].id)

\* The number of messages of the history s attributed to the actor.
CountFor(s, actor) == Len(SelectSeq(s, LAMBDA m : m.actor = actor))
\* The sum of f[x].count and of the numerators of f[x].percentage over x in S.
RECURSIVE SumCount(_, _)
SumCount(f, S) ==
  IF S = {} THEN 0
  ELSE LET x == CHOOSE y \in S : TRUE IN f[x].count + SumCount(f, S \ {x})
RECURSIVE SumShare(_, _)
SumShare(f, S) ==
  IF S = {} THEN 0
  ELSE LET x == CHOOSE y \in S : TRUE IN f[x].percentage.num + SumShare(f, S \ {x})
\* The fraction q is a number, and it is the number a / b.
Defined(q) == q.den # 0
IsShare(q, a, b) == Defined(q) /\ b # 0 /\ q.num * b = a * q.den

\* C24: getMessagesFor(actor) returns exactly the messages of that actor, each
\* under the key that is its index in the full history.
C24_KeyedByHistoryIndex ==
  lastOp.name = "getMessagesFor" =>
    /\ Len(result) = CountFor(history, lastOp.speaker)
    /\ \A i \in 1..Len(result) :
         /\ result[i].key + 1 \in 1..Len(history)
         /\ history[result[i].key + 1] = result[i].value
         /\ result[i].value.actor = lastOp.speaker

\* C25: getStats gives every speaker its number of messages as count and
\* count / total as percentage; the counts sum to the length of the history
\* and, in a history that is not empty, the percentages sum to 1 (three
\* messages of one speaker and one of another give 3/4 and 1/4).
C25_StatsShares ==
  lastOp.name = "getStats" =>
    /\ DOMAIN result = {history[i].actor : i \in 1..Len(history)}
    /\ \A actor \in DOMAIN result :
         /\ result[actor].count = CountFor(history, actor)
         /\ IsShare(result[actor].percentage, CountFor(history, actor), Len(history))
         /\ result[actor].percentage.den = Len(history)
    /\ SumCount(result, DOMAIN result) = Len(history)
    /\ history # <<>> => SumShare(result, DOMAIN result) = Len(history)
    /\ \A a, b \in DOMAIN result :
         (result[a].count = 3 /\ result[b].count = 1 /\ Len(history) = 4) =>
           /\ IsShare(result[a].percentage, 75, 100)
           /\ IsShare(result[b].percentage, 25, 100)
C25_Witness ==
  /\ lastOp.name = "getStats"
  /\ Len(history) = 4
  /\ DOMAIN result = StatActors
  /\ result[ActorNames[1]].count = 3
  /\ result[ActorNames[2]].count = 1
  /\ IsShare(result[ActorNames[1]].percentage, 3, 4)

\* C26: getStats never divides by zero: of an empty history it returns empty
\* stats, and of any other every percentage and textPercentage is a number,
\* also when no message has any text.
C26_NoDivisionByZero ==
  lastOp.name = "getStats" =>
    /\ history = <<>> => DOMAIN result = {}
    /\ \A actor \in DOMAIN result :
         /\ Defined(result[actor].percentage)
         /\ Defined(result[actor].textPercentage)

\* The position in the history s of the message object with identity id.
Position(s, id) == CHOOSE i \in 1..Len(s) : s[i].id = id

\* C27: push, inject, turn, query and cleanEphemeral only append at the end or
\* remove: whatever stands before a message that was in the history already
\* was in the history too, and stood before it.
C27_OrderKept ==
  [][ \A i, j \in 1..Len(history') :
        (i < j /\ Includes(history, history'[j].id)) =>
          /\ Includes(history, history'[i].id)
          /\ Position(history, history'[i].id) < Position(history, history'[j].id) ]_vars
C27_Witness ==
  /\ lastOp.name = "turn" /\ lastOp.outcome = "ok"
  /\ Len(history) >= 2
  /\ Last(history).id = lastOp.ret
  /\ \E i \in 1..Len(before) : ~Includes(history, before[i].id)
  /\ \E i \in 1..Len(before) : Includes(history, before[i].id)

\* C29: once every set and delete call made has returned, every participant
\* holds the same entries under every name, and get(name) returns them.
C29_ContextFansOut ==
  (status = "ok" /\ setCalls = {} /\ setCount > 0) =>
    /\ \A a, b \in DOMAIN context : \A name \in CtxNames :
         context[a][name] = context[b][name]
    /\ lastOp.name = "context.get" =>
         \A a \in DOMAIN context : result.entry = context[a][result.name]

\* C30: of any two turns invoked on a conversation, the message of the one
\* invoked first stands before the message of the one invoked later.
C30_CommitInCallOrder ==
  \A i, j \in 1..Len(commits) :
    (commits[i].call < commits[j].call
       /\ Includes(history, commits[i].id) /\ Includes(history, commits[j].id)) =>
      Position(history, commits[i].id) < Position(history, commits[j].id)

C32_CursorFrame ==
  [][ /\ lastIndex' # lastIndex =>
           /\ lastIndex' = lastIndex + 1
           /\ schedLog' = Append(schedLog, NextSpeaker(lastIndex, nActors))
      /\ (\E g \in BOOLEAN : Turn(0, g)) => lastIndex' = lastIndex + 1
      /\ (LoopNext /\ loopPc' = "turn") => lastIndex' = lastIndex + 1
      /\ ( \/ \E sp \in 1..nActors, g \in BOOLEAN : Turn(sp, g)
           \/ \E r \in GenResults : TurnReturn(r)
           \/ \E a \in 1..nActors, st \in StoreArgs, g \in BOOLEAN :
                Query(System, a, TxtWhy, st, g)
           \/ \E r \in GenResults : QueryReturn(r)
           \/ \E e \in BOOLEAN : Inject(System, TxtWelcome, e) )
         => lastIndex' = lastIndex ]_vars
C32_Witness ==
  /\ lastIndex = 2
  /\ lastOp.name = "turn" /\ lastOp.outcome = "ok"
  /\ \E i \in 1..Len(history) : history[i].text = TxtWhy
  /\ \E i \in 1..Len(history) : history[i].text = TxtWelcome

\* C33: while generateText runs for a query, whatever store is, the prompt it
\* was given is that of the history with the query message (of the asking
\* party, with the query text) as its last message, and the history still
\* holds that message: nothing has been cleaned.
C33_QueryPromptSeesQuery ==
  pc = "query" =>
    /\ cur.prompt # <<>>
    /\ Last(cur.prompt).actor = cur.speaker
    /\ Last(cur.prompt).text = TxtWhy
    /\ Last(cur.prompt).ephemeral = QueryEphemeral(cur.store)
    /\ SubSeq(cur.prompt, 1, Len(cur.prompt) - 1) = RenderMessages(before)
    /\ history = before \o <<Last(cur.prompt)>>
C33_Witness ==
  /\ pc = "query"
  /\ Len(before) >= 1
  /\ cur.ephemeral
  /\ \E i \in 1..Len(before) : before[i].ephemeral

\* C34: when generateText fails during a turn the error reaches the caller,
\* the call of generateText is over and none follows for that turn, no message
\* is committed, and the history, ephemeral messages included, is what it was
\* before the turn.
C34_FailedTurnLeavesHistory ==
  (lastOp.name \in {"turn", "loop"} /\ lastOp.outcome = "generateText_error") =>
    /\ history = before
    /\ pc = "idle" /\ loopPc \in {"none", "ended"}
    /\ cur = NoCur
C34_Witness ==
  /\ lastOp.name = "turn" /\ lastOp.outcome = "generateText_error"
  /\ Ephemerals(history) # <<>>
  /\ NonEphemeral(history) # <<>>

\* C35: a turn called without a speaker that fails because there is no
\* generateText leaves the cursor of the scheduler where it was.
C35_FailedTurnKeepsCursor ==
  [][ ((\E g \in BOOLEAN : Turn(0, g)) /\ lastOp'.outcome = "no_generateText")
        => lastIndex' = lastIndex ]_vars

\* C36: when the signal is aborted at some moment and every call of
\* generateText returns, a loop that runs comes to its end; as long as the
\* signal is not aborted a loop that has yielded starts its next turn, and
\* the speaker of every turn of the loop is the one round-robin gives.
C36_LoopLiveness ==
  /\ (loopPc # "none") ~> (loopPc = "none")
  /\ (loopPc = "yielded" /\ lastIndex < MaxCalls) ~> (loopPc = "turn" \/ aborted)
  /\ [](loopPc = "turn" =>
          /\ lastIndex >= 1
          /\ cur.speaker = ActorNames[NextSpeaker(lastIndex - 1, nActors)])
C36_Witness ==
  /\ lastOp.name = "loop" /\ lastOp.outcome = "done"
  /\ loopPc = "none"
  /\ lastIndex >= 2
  /\ Len(history) >= 2

\* The length of a message by its token list, else by its embedding vector,
\* else by the heuristic over its words.
ExactLength(message) ==
  IF message.tokens # Undef THEN message.tokens
  ELSE IF message.embeddings # Undef THEN message.embeddings
  ELSE Heuristic(message.text)
RECURSIVE ExactLengths(_)
ExactLengths(s) == IF s = <<>> THEN 0 ELSE ExactLength(Head(s)) + ExactLengths(Tail(s))

\* C37: mask counts a message at the length of its token list or embedding
\* vector when it has one and at ceil(words x 0.75) only when it has neither:
\* what it returns is the longest run of newest messages whose lengths,
\* counted so, fit the window.
C37_MaskExactLength ==
  maskPc = "done" =>
    LET n == Len(maskInput)
        k == Len(maskOutput)
    IN /\ maskOutput = SubSeq(maskInput, n - k + 1, n)
       /\ ExactLengths(maskOutput) <= maskWindow
       /\ k < n => ExactLengths(SubSeq(maskInput, n - k, n)) > maskWindow

\* Every set call made has derived its tokens, has returned, and has pushed
\* for every actor an entry that is still there: the calls were sets with
\* tokens true and nothing else touched the name.
AllDerivedSetsDone(name) ==
  /\ status = "ok" /\ setCalls = {} /\ setCount >= 2
  /\ \A a \in DOMAIN context :
       /\ Len(context[a][name].entries) = setCount
       /\ \A i \in 1..setCount : context[a][name].entries[i].tokens

\* C38: when set calls that derive their tokens overlap, then once all have
\* returned every participant holds the same entries in the same order under
\* the name, in whatever order the derivations returned.
C38_OverlappingSetsAgree ==
  \A name \in CtxNames :
    AllDerivedSetsDone(name) =>
      \A a, b \in DOMAIN context : context[a][name] = context[b][name]

\* The number of the flags of an object given as store that are true.
TrueFlags(store) == (IF store.query THEN 1 ELSE 0) + (IF store.response THEN 1 ELSE 0)

\* C39: with store given as an object, the query message is kept iff
\* store.query and the answer iff store.response, each on its own: after a
\* completed query on a history without other ephemeral messages the history
\* is the one before, then the query message if kept, then the answer if kept.
C39_StoreFlagsIndependent ==
  (lastOp.name = "query" /\ lastOp.outcome = "ok" /\ lastOp.store.kind = "object"
     /\ Ephemerals(before) = <<>>) =>
    LET n == Len(before)
        q == lastOp.store.query
        a == lastOp.store.response
    IN /\ Len(history) = n + TrueFlags(lastOp.store)
       /\ SubSeq(history, 1, n) = before
       /\ q => /\ history[n + 1].actor = lastOp.speaker
               /\ history[n + 1].text = TxtWhy
               /\ ~history[n + 1].ephemeral
       /\ a => /\ Last(history).text = lastOp.text
               /\ Last(history).actor \in Range(ActorNames)
               /\ ~Last(history).ephemeral
C39_Witness ==
  /\ lastOp.name = "query" /\ lastOp.outcome = "ok" /\ lastOp.store.kind = "object"
  /\ ~lastOp.store.query /\ lastOp.store.response
  /\ before # <<>> /\ Ephemerals(before) = <<>>
  /\ Len(history) = Len(before) + 1

====
